---- MODULE Spec2Model ----
(***************************************************************************)
(* image-hospital: the upload coordinator (uploadImage), the access        *)
(* arbiter (accessImage), the token generator, the PostgreSQL metadata     *)
(* store and the local-filesystem blob store, as a state machine.          *)
(*                                                                         *)
(* Requests are served by replicas that share the metadata table and the   *)
(* blob directory.  A request advances at the points where its handler     *)
(* resumes after an await; the I/O it awaited takes effect in that step.   *)
(***************************************************************************)
EXTENDS Integers, Sequences, FiniteSets, TLC

VARIABLES
    time,            \* reference wall-clock instant (ms)
    token_metadata,  \* PostgreSQL table token_metadata: token -> row
    files,           \* blob directory: blob reference -> bytes
    contentTypeMap,  \* per replica: LocalFilesystemBlobStorage.contentTypeMap
    uploads,         \* uploadImage invocations, in order of arrival
    accesses,        \* accessImage invocations, in order of arrival
    store,           \* one PostgresMetadataStore instance from its construction
    dual,            \* one DualBlobStorage with its two stores
    startup,         \* one call of a start-up function: its input and its result
    ui               \* the upload page (App component) and its requests

vars == <<time, token_metadata, files, contentTypeMap, uploads, accesses,
          store, dual, startup, ui>>

\* the request path of the service, and the parts around it
service == <<time, token_metadata, files, contentTypeMap, uploads, accesses>>

----------------------------------------------------------------------------
(* Bounds of the model *)

\* total number of requests (uploads + accesses) of one behaviour
MaxRequests == 2

\* the instants the reference clock takes: upload instant, and the instants
\* around the nominal expiry and around the end of the grace window
TimePoints == {0, 64999, 65000, 65001}

\* the replicas behind the load balancer and the offset of each replica's
\* Date.now() from the reference clock
Replicas == {"r1", "r2"}
clockOffset == [r \in Replicas |-> IF r = "r1" THEN 0 ELSE 5000]

\* outputs of crypto.randomBytes(8) the model draws from
RandomOutputs ==
    { <<0, 0, 0, 0, 0, 0, 0, 0>>,
      <<62, 0, 0, 0, 0, 0, 0, 0>>,
      <<1, 0, 0, 0, 0, 0, 0, 0>> }

----------------------------------------------------------------------------
(* Program constants *)

CLOCK_SKEW_TOLERANCE_MS == 5000
EXPIRY_DURATION_MS == 60000
MAX_IMAGE_BYTES == 5 * 1024 * 1024
ALPHANUMERIC == "ABCDEFGHIJKLMNOPQRSTUVWXYZabcdefghijklmnopqrstuvwxyz0123456789"
DefaultSupportedFileTypes == <<"jpeg", "jpg", "png", "webp">>

None == "(none)"

----------------------------------------------------------------------------
(* Token service *)

RECURSIVE tokenChars(_, _)
tokenChars(randomBytes, i) ==
    IF i > 8 THEN ""
    ELSE LET index == randomBytes[i] % 62
         IN  SubSeq(ALPHANUMERIC, index + 1, index + 1) \o tokenChars(randomBytes, i + 1)

\* faulty variant: the bytes are encoded with the standard base64 alphabet
generateToken_base64(randomBytes) ==
    LET Base64 == ALPHANUMERIC \o "+/"
        char(k) == SubSeq(Base64, (randomBytes[k] % 64) + 1, (randomBytes[k] % 64) + 1)
    IN  char(1) \o char(2) \o char(3) \o char(4) \o char(5) \o char(6) \o char(7) \o char(8)

generateToken(randomBytes) == tokenChars(randomBytes, 1)

Tokens == { generateToken(b) : b \in RandomOutputs }

----------------------------------------------------------------------------
(* Upload validation *)

startsWith(s, prefix) ==
    /\ Len(s) >= Len(prefix)
    /\ SubSeq(s, 1, Len(prefix)) = prefix

\* faulty variant: jpg is expanded like any other entry
mimeOfPart_jpg(part) ==
    CASE part = "jpeg" -> "image/jpeg"
      [] OTHER -> IF startsWith(part, "image/") THEN part ELSE "image/" \o part

mimeOfPart(part) ==
    CASE part \in {"jpeg", "jpg"} -> "image/jpeg"
      [] part = "png"  -> "image/png"
      [] part = "gif"  -> "image/gif"
      [] part = "webp" -> "image/webp"
      [] OTHER -> IF startsWith(part, "image/") THEN part ELSE "image/" \o part

parseSupportedFileTypes(parts) == { mimeOfPart(parts[i]) : i \in DOMAIN parts }

\* faulty variant: the size check is missing
validateUploadInput_noSizeCap(input, supportedImageTypes) ==
    IF input.data.length = 0 THEN "Image data is empty"
    ELSE IF input.contentType = "" THEN "contentType is required"
    ELSE IF input.contentType \notin supportedImageTypes
         THEN "Unsupported image contentType: " \o input.contentType
    ELSE None

\* faulty variant: a payload of exactly MAX_IMAGE_BYTES is refused
validateUploadInput_capInclusive(input, supportedImageTypes) ==
    IF input.data.length = 0 THEN "Image data is empty"
    ELSE IF input.data.length >= MAX_IMAGE_BYTES THEN "Image exceeds maximum allowed size"
    ELSE IF input.contentType = "" THEN "contentType is required"
    ELSE IF input.contentType \notin supportedImageTypes
         THEN "Unsupported image contentType: " \o input.contentType
    ELSE None

\* the message of the UploadValidationError thrown, or None
validateUploadInput(input, supportedImageTypes) ==
    IF input.data.length = 0 THEN "Image data is empty"
    ELSE IF input.data.length > MAX_IMAGE_BYTES THEN "Image exceeds maximum allowed size"
    ELSE IF input.contentType = "" THEN "contentType is required"
    ELSE IF input.contentType \notin supportedImageTypes
         THEN "Unsupported image contentType: " \o input.contentType
    ELSE None

----------------------------------------------------------------------------
(* Expiry policy *)

\* faulty variant: the end of the grace window is excluded
isTokenExpired_inclusive(nowMs, expiresAtEpochMs) ==
    nowMs >= expiresAtEpochMs + CLOCK_SKEW_TOLERANCE_MS

\* faulty variant: the tolerance is granted on both sides of the comparison
isTokenExpired_twice(nowMs, expiresAtEpochMs) ==
    nowMs - CLOCK_SKEW_TOLERANCE_MS > expiresAtEpochMs + CLOCK_SKEW_TOLERANCE_MS

\* faulty variant: a record never expires
isTokenExpired_never(nowMs, expiresAtEpochMs) == FALSE

\* faulty variant: no tolerance is granted
isTokenExpired_noGrace(nowMs, expiresAtEpochMs) == nowMs > expiresAtEpochMs

isTokenExpired(nowMs, expiresAtEpochMs) ==
    nowMs > expiresAtEpochMs + CLOCK_SKEW_TOLERANCE_MS

\* Date.now() on a replica
now(r) == time + clockOffset[r]

----------------------------------------------------------------------------
(* PostgreSQL metadata store.  expires_at_epoch_ms is a BIGINT column: the *)
(* driver sends the number as decimal text and returns the column as text, *)
(* which get() converts back with parseInt.                                *)

null == <<>>
Some(x) == <<x>>

Digits == "0123456789"

digitValue(c) == CHOOSE d \in 0..9 : SubSeq(Digits, d + 1, d + 1) = c

RECURSIVE parseDigits(_, _, _)
parseDigits(s, i, acc) ==
    IF i > Len(s) \/ ~(\E d \in 0..9 : SubSeq(Digits, d + 1, d + 1) = SubSeq(s, i, i))
    THEN acc
    ELSE parseDigits(s, i + 1, 10 * acc + digitValue(SubSeq(s, i, i)))

parseInt(s) ==
    IF startsWith(s, "-") THEN 0 - parseDigits(s, 2, 0) ELSE parseDigits(s, 1, 0)

bigintText(n) == ToString(n)

\* faulty variant: ON CONFLICT (token) DO NOTHING, the first record is kept
PostgresPut_keepFirst(table, token, blobRef, expiresAtEpochMs) ==
    [t \in (DOMAIN table) \cup {token} |->
        IF t \in DOMAIN table
        THEN table[t]
        ELSE [blob_ref |-> blobRef, expires_at_epoch_ms |-> bigintText(expiresAtEpochMs)]]

\* INSERT ... ON CONFLICT (token) DO UPDATE: the table after put
PostgresPut(table, token, blobRef, expiresAtEpochMs) ==
    [t \in (DOMAIN table) \cup {token} |->
        IF t = token
        THEN [blob_ref |-> blobRef, expires_at_epoch_ms |-> bigintText(expiresAtEpochMs)]
        ELSE table[t]]

\* SELECT ... WHERE token = $1: null, or the TokenMetadata of the row
PostgresGet(table, token) ==
    IF token \notin DOMAIN table
    THEN null
    ELSE Some([blobRef |-> table[token].blob_ref,
               expiresAtEpochMs |-> parseInt(table[token].expires_at_epoch_ms)])

----------------------------------------------------------------------------
(* Local filesystem blob store.  crypto.randomUUID() is modelled as an     *)
(* identifier not used by any file of the directory.                       *)

\* faulty variant: every save gets the same identifier
randomUUID_fixed(dir) == "u1"

randomUUID(dir) == "u" \o ToString(Cardinality(DOMAIN dir) + 1)

generateBlobRef(dir) == "fs:" \o randomUUID(dir)

\* the file name of a blob reference inside baseDirectory
getFilePath(blobRef) == SubSeq(blobRef, 4, Len(blobRef))

\* faulty variant: save returns its reference before the file is written
writeFile_deferred(dir, filePath, data) == dir

\* fs.writeFile
writeFile(dir, filePath, data) ==
    [f \in (DOMAIN dir) \cup {filePath} |-> IF f = filePath THEN data ELSE dir[f]]

\* contentTypeMap.set, done only for a truthy options.contentType
setContentType(map, blobRef, contentType) ==
    IF contentType = "" THEN map
    ELSE [b \in (DOMAIN map) \cup {blobRef} |-> IF b = blobRef THEN contentType ELSE map[b]]

\* LocalFilesystemBlobStorage.get: the bytes of the file, or null when
\* readFile fails with ENOENT
LocalGet(dir, blobRef) ==
    IF startsWith(blobRef, "fs:") /\ getFilePath(blobRef) \in DOMAIN dir
    THEN Some(dir[getFilePath(blobRef)])
    ELSE null

----------------------------------------------------------------------------
(* uploadImage: the handler's segments between its awaits.  An upload is   *)
(* a record: the request, the handler's locals, the calls it has made on   *)
(* its collaborators (in invocation order) and what it delivered.  The     *)
(* field fault is not the handler's: it names the collaborator that the    *)
(* environment made fail in this request.                                  *)

NewUpload(r, input) ==
    [replica |-> r, data |-> input.data, contentType |-> input.contentType,
     pc |-> "done", calls |-> <<>>, blobRef |-> "", token |-> "",
     nowMs |-> null, putArgs |-> null, result |-> null, error |-> "",
     response |-> null, fault |-> ""]

\* faulty variant: the duration is taken in seconds
expiresAtEpochMs_seconds(nowMs) == nowMs + EXPIRY_DURATION_MS \div 1000

\* line 177: expiresAtEpochMs = nowMs + EXPIRY_DURATION_MS
expiresAtEpochMs(nowMs) == nowMs + EXPIRY_DURATION_MS

\* faulty variant: the token is minted before the blob is saved
uploadImage_begin_mintFirst(r, input, saved, minted, clock) ==
    LET supportedImageTypes == parseSupportedFileTypes(DefaultSupportedFileTypes)
        invalid == validateUploadInput(input, supportedImageTypes)
        u == NewUpload(r, input)
    IN  IF invalid # None
        THEN [u EXCEPT !.error = "UploadValidationError: " \o invalid]
        ELSE IF minted = null
        THEN [u EXCEPT !.calls = <<"tokenService.generateToken">>,
                       !.error = "Error: randomBytes failed"]
        ELSE IF saved = null
        THEN [u EXCEPT !.calls = <<"tokenService.generateToken", "blobStorage.save">>,
                       !.token = minted[1],
                       !.error = "Error: Failed to save blob"]
        ELSE [u EXCEPT !.pc = "put",
                       !.calls = <<"tokenService.generateToken", "blobStorage.save",
                                   "metadataStore.put">>,
                       !.blobRef = saved[1], !.token = minted[1],
                       !.nowMs = Some(clock),
                       !.putArgs = Some([token |-> minted[1], blobRef |-> saved[1],
                                         expiresAtEpochMs |-> expiresAtEpochMs(clock)])]

\* faulty variant: a failure of blobStorage.save is caught and the upload goes on
uploadImage_begin_swallowSave(r, input, saved, minted, clock) ==
    LET supportedImageTypes == parseSupportedFileTypes(DefaultSupportedFileTypes)
        invalid == validateUploadInput(input, supportedImageTypes)
        u == NewUpload(r, input)
        ref == IF saved = null THEN "" ELSE saved[1]
    IN  IF invalid # None
        THEN [u EXCEPT !.error = "UploadValidationError: " \o invalid]
        ELSE IF minted = null
        THEN [u EXCEPT !.calls = <<"blobStorage.save", "tokenService.generateToken">>,
                       !.blobRef = ref,
                       !.error = "Error: randomBytes failed"]
        ELSE [u EXCEPT !.pc = "put",
                       !.calls = <<"blobStorage.save", "tokenService.generateToken",
                                   "metadataStore.put">>,
                       !.blobRef = ref, !.token = minted[1],
                       !.nowMs = Some(clock),
                       !.putArgs = Some([token |-> minted[1], blobRef |-> ref,
                                         expiresAtEpochMs |-> expiresAtEpochMs(clock)])]

\* from the call until the handler awaits metadataStore.put: validation,
\* blobStorage.save (saved = null: it rejected; else the reference), the token
\* (minted = null: generateToken threw), the clock reading, the put issued
uploadImage_begin(r, input, saved, minted, clock) ==
    LET supportedImageTypes == parseSupportedFileTypes(DefaultSupportedFileTypes)
        invalid == validateUploadInput(input, supportedImageTypes)
        u == NewUpload(r, input)
    IN  IF invalid # None
        THEN [u EXCEPT !.error = "UploadValidationError: " \o invalid]
        ELSE IF saved = null
        THEN [u EXCEPT !.calls = <<"blobStorage.save">>,
                       !.error = "Error: Failed to save blob"]
        ELSE IF minted = null
        THEN [u EXCEPT !.calls = <<"blobStorage.save", "tokenService.generateToken">>,
                       !.blobRef = saved[1],
                       !.error = "Error: randomBytes failed"]
        ELSE [u EXCEPT !.pc = "put",
                       !.calls = <<"blobStorage.save", "tokenService.generateToken",
                                   "metadataStore.put">>,
                       !.blobRef = saved[1], !.token = minted[1],
                       !.nowMs = Some(clock),
                       !.putArgs = Some([token |-> minted[1], blobRef |-> saved[1],
                                         expiresAtEpochMs |-> expiresAtEpochMs(clock)])]

\* faulty variant: the result is returned although put rejected
uploadImage_afterPut_swallow(u, ok) ==
    [u EXCEPT !.pc = "done",
              !.result = Some([token |-> u.token, blobRef |-> u.blobRef,
                               expiresAtEpochMs |-> u.putArgs[1].expiresAtEpochMs])]

\* put has settled: return { token, blobRef, expiresAtEpochMs } or fail
uploadImage_afterPut(u, ok) ==
    IF ~ok
    THEN [u EXCEPT !.pc = "done", !.error = "Error: query failed"]
    ELSE [u EXCEPT !.pc = "done",
                   !.result = Some([token |-> u.token, blobRef |-> u.blobRef,
                                    expiresAtEpochMs |-> u.putArgs[1].expiresAtEpochMs])]

----------------------------------------------------------------------------
(* accessImage: the handler's segments between its awaits.  The fields     *)
(* fault and after are not the handler's: fault names the collaborator the *)
(* environment made fail, after the uploads that had returned when the     *)
(* access was made.                                                        *)

NewAccess(r, token) ==
    [replica |-> r, token |-> token, pc |-> "done", calls |-> <<>>,
     metadata |-> null, nowMs |-> null, result |-> null, error |-> "",
     response |-> null, fault |-> "", after |-> {}]

Denied(reason) == Some([allowed |-> FALSE, reason |-> reason])

isSpace(c) == c \in {" ", "\t", "\n", "\r"}

\* faulty variant: the token is compared without being trimmed
trim_missing(s) == s

\* String.prototype.trim
RECURSIVE trim(_)
trim(s) ==
    IF Len(s) = 0 THEN s
    ELSE IF isSpace(SubSeq(s, 1, 1)) THEN trim(SubSeq(s, 2, Len(s)))
    ELSE IF isSpace(SubSeq(s, Len(s), Len(s))) THEN trim(SubSeq(s, 1, Len(s) - 1))
    ELSE s

\* faulty variant: the blob is fetched before the expiry check
accessImage_decide_fetchFirst(a, got, clock) ==
    IF isTokenExpired(clock, got[1].expiresAtEpochMs)
    THEN [a EXCEPT !.metadata = got, !.nowMs = Some(clock),
                   !.calls = Append(@, "blobStorage.get"),
                   !.result = Denied("expired")]
    ELSE [a EXCEPT !.pc = "blob", !.metadata = got, !.nowMs = Some(clock),
                   !.calls = Append(@, "blobStorage.get")]

\* faulty variant: an allowed access rewrites the record before fetching the blob
accessImage_decide_touch(a, got, clock) ==
    IF isTokenExpired(clock, got[1].expiresAtEpochMs)
    THEN [a EXCEPT !.metadata = got, !.nowMs = Some(clock),
                   !.result = Denied("expired")]
    ELSE [a EXCEPT !.pc = "blob", !.metadata = got, !.nowMs = Some(clock),
                   !.calls = @ \o <<"metadataStore.put", "blobStorage.get">>]

\* lines 97-105: the record was found; the clock reading, the expiry check,
\* and blobStorage.get issued when the token is not expired
accessImage_decide(a, got, clock) ==
    IF isTokenExpired(clock, got[1].expiresAtEpochMs)
    THEN [a EXCEPT !.metadata = got, !.nowMs = Some(clock),
                   !.result = Denied("expired")]
    ELSE [a EXCEPT !.pc = "blob", !.metadata = got, !.nowMs = Some(clock),
                   !.calls = Append(@, "blobStorage.get")]

\* from the call until the handler awaits blobStorage.get: the token check,
\* metadataStore.get (ok = FALSE: it rejected; got: null or the metadata),
\* then the decision
accessImage_begin(r, token, ok, got, clock) ==
    LET a == NewAccess(r, token)
    IN  IF token = "" \/ trim(token) = ""
        THEN [a EXCEPT !.result = Denied("invalid")]
        ELSE IF ~ok
        THEN [a EXCEPT !.calls = <<"metadataStore.get">>,
                       !.error = "Error: query failed"]
        ELSE IF got = null
        THEN [a EXCEPT !.calls = <<"metadataStore.get">>,
                       !.result = Denied("missing")]
        ELSE accessImage_decide([a EXCEPT !.calls = <<"metadataStore.get">>], got, clock)

\* faulty variant: a blob that cannot be read is answered as a denial
accessImage_afterBlob_missing(a, blob) ==
    IF blob = null
    THEN [a EXCEPT !.pc = "done", !.result = Denied("missing")]
    ELSE [a EXCEPT !.pc = "done",
                   !.result = Some([allowed |-> TRUE, blob |-> blob[1],
                                    metadata |-> [token |-> a.token,
                                                  blobRef |-> a.metadata[1].blobRef,
                                                  expiresAtEpochMs |->
                                                      a.metadata[1].expiresAtEpochMs]])]

\* blobStorage.get has settled (blob = null: it rejected)
accessImage_afterBlob(a, blob) ==
    IF blob = null
    THEN [a EXCEPT !.pc = "done", !.error = "Error: Blob not found"]
    ELSE [a EXCEPT !.pc = "done",
                   !.result = Some([allowed |-> TRUE, blob |-> blob[1],
                                    metadata |-> [token |-> a.token,
                                                  blobRef |-> a.metadata[1].blobRef,
                                                  expiresAtEpochMs |->
                                                      a.metadata[1].expiresAtEpochMs]])]

----------------------------------------------------------------------------
(* HTTP adapter: GET /image/:token.  A response is the status, the headers *)
(* and the body written to the socket.                                     *)

Unreserved ==
    "ABCDEFGHIJKLMNOPQRSTUVWXYZabcdefghijklmnopqrstuvwxyz0123456789-_.!~*'()"

\* encodeURIComponent, for text made of unreserved characters and spaces
RECURSIVE encodeURIComponent(_)
encodeURIComponent(s) ==
    IF Len(s) = 0 THEN ""
    ELSE LET c == SubSeq(s, 1, 1)
             rest == encodeURIComponent(SubSeq(s, 2, Len(s)))
         IN  IF \E k \in 1..Len(Unreserved) : SubSeq(Unreserved, k, k) = c
             THEN c \o rest
             ELSE IF c = " " THEN "%20" \o rest
             ELSE "%" \o rest

getRedirectUrl(message) == "/?error=" \o encodeURIComponent(message)

\* the headers handleRequest sets on every response
BaseHeaders ==
    [AccessControlAllowOrigin |-> "*", ContentType |-> "application/json", Location |-> ""]

\* the 302 written for an empty token and for every denied access
DeniedRedirect ==
    Some([status |-> 302,
          headers |-> [BaseHeaders EXCEPT !.Location =
              getRedirectUrl("The URL may be invalid or the image has expired.")],
          body |-> ""])

InternalServerError ==
    Some([status |-> 500, headers |-> BaseHeaders,
          body |-> "{\"error\":\"Internal server error\"}"])

\* faulty variant: the message of the redirect names the reason
handleImage_respond_reason(a, map) ==
    LET redirect(reason) ==
            Some([status |-> 302,
                  headers |-> [BaseHeaders EXCEPT !.Location = getRedirectUrl(reason)],
                  body |-> ""])
    IN  IF a.token = "" THEN redirect("invalid")
        ELSE IF a.error # "" THEN InternalServerError
        ELSE IF a.result = null THEN null
        ELSE IF ~a.result[1].allowed THEN redirect(a.result[1].reason)
        ELSE LET blobRef == a.result[1].metadata.blobRef
                 contentType == IF blobRef \in DOMAIN map THEN map[blobRef]
                                ELSE "application/octet-stream"
             IN  Some([status |-> 200,
                       headers |-> [BaseHeaders EXCEPT !.ContentType = contentType],
                       body |-> a.result[1].blob])

\* handleImage, lines 112-158: null while accessImage is pending, else the
\* response; map is the contentTypeMap of the serving process
handleImage_respond(a, map) ==
    IF a.token = "" THEN DeniedRedirect
    ELSE IF a.error # "" THEN InternalServerError
    ELSE IF a.result = null THEN null
    ELSE IF ~a.result[1].allowed THEN DeniedRedirect
    ELSE LET blobRef == a.result[1].metadata.blobRef
             contentType == IF blobRef \in DOMAIN map THEN map[blobRef]
                            ELSE "application/octet-stream"
         IN  Some([status |-> 200,
                   headers |-> [BaseHeaders EXCEPT !.ContentType = contentType],
                   body |-> a.result[1].blob])

\* the access with the response the adapter has written for it
handleImage(a, map) == [a EXCEPT !.response = handleImage_respond(a, map)]

----------------------------------------------------------------------------
(* HTTP adapter: POST /upload.  An error thrown by uploadImage is kept as   *)
(* "<name>: <message>", as Error.prototype.toString gives it.               *)

\* the position of the first occurrence of character c in s, 0 if none
RECURSIVE indexOf(_, _, _)
indexOf(s, c, k) ==
    IF k > Len(s) THEN 0
    ELSE IF SubSeq(s, k, k) = c THEN k
    ELSE indexOf(s, c, k + 1)

\* error.name
errorName(error) == SubSeq(error, 1, indexOf(error, ":", 1) - 1)

\* error instanceof UploadValidationError, and the message of such an error
isUploadValidationError(error) == startsWith(error, "UploadValidationError: ")
validationMessage(error) == SubSeq(error, Len("UploadValidationError: ") + 1, Len(error))

\* handleUpload, lines 183-210: null while uploadImage is pending, else the
\* response
handleUpload_respond(u) ==
    IF u.result # null
    THEN Some([status |-> 200, headers |-> BaseHeaders,
               body |-> [url |-> "/image/" \o u.result[1].token,
                         expiresAtEpochMs |-> u.result[1].expiresAtEpochMs]])
    ELSE IF u.error = "" THEN null
    ELSE IF isUploadValidationError(u.error)
    THEN Some([status |-> 400, headers |-> BaseHeaders,
               body |-> [error |-> validationMessage(u.error)]])
    ELSE Some([status |-> 500, headers |-> BaseHeaders,
               body |-> [error |-> "Internal server error"]])

\* the upload with the response the adapter has written for it
handleUpload(u) == [u EXCEPT !.response = handleUpload_respond(u)]

\* faulty variant: the query string is not cut off
handleImage_token_keepQuery(url) ==
    IF startsWith(url, "/image/") THEN SubSeq(url, 8, Len(url)) ELSE ""

\* handleImage, lines 113-117: the token of a request URL
handleImage_token(url) ==
    LET q == indexOf(url, "?", 1)
        path == IF q = 0 THEN url ELSE SubSeq(url, 1, q - 1)
        prefix == "/image/"
    IN  IF startsWith(path, prefix) THEN SubSeq(path, Len(prefix) + 1, Len(path)) ELSE ""

----------------------------------------------------------------------------
(* PostgresMetadataStore as an object: the promise schemaInitialized that  *)
(* its constructor makes, the database behind the pool, and the calls of   *)
(* put and get made on the instance, each suspended at its first await.    *)

\* calls of put and get on one instance, the check of createHttpServer included
MaxCalls == 3

\* createHttpServer's first operation on the store
InitCheck == [op |-> "get", token |-> "__init_check__"]

\* a call of put or get that has reached `await this.schemaInitialized`;
\* issued is the state of the promise when the call was made
NewCall(op, token, schemaInitialized) ==
    [op |-> op, token |-> token, pc |-> "await", outcome |-> "",
     issued |-> schemaInitialized]

\* new HttpServer(config) followed at once by get('__init_check__'); table
\* tells whether the relation exists in the database (left by an earlier run)
NewStore(table) ==
    [schemaInitialized |-> "pending", table |-> table, rows |-> <<>>,
     calls |-> <<NewCall(InitCheck.op, InitCheck.token, "pending")>>,
     server |-> "starting"]

\* the store of a server that createHttpServer has started
Listening ==
    [schemaInitialized |-> "fulfilled", table |-> TRUE, rows |-> <<>>,
     calls |-> <<[NewCall(InitCheck.op, InitCheck.token, "pending")
                     EXCEPT !.pc = "done", !.outcome = "null"]>>,
     server |-> "listening"]

\* faulty variant: put and get do not wait for the promise
awaitSchemaInitialized_skip(schemaInitialized) == "resume"

\* faulty variant: a rejection of the promise is swallowed
awaitSchemaInitialized_swallow(schemaInitialized) ==
    IF schemaInitialized = "pending" THEN "pending" ELSE "resume"

\* await this.schemaInitialized: the caller stays suspended, resumes, or the
\* rejection is thrown into it
awaitSchemaInitialized(schemaInitialized) ==
    CASE schemaInitialized = "pending"   -> "pending"
      [] schemaInitialized = "fulfilled" -> "resume"
      [] schemaInitialized = "rejected"  -> "throw"

\* the arguments of the puts made on the instance
PutBlobRef == "fs:u1"
PutExpiresAtEpochMs == 60000

\* put or get from its await on: the store and the settled call.  Without
\* the relation the query fails (relation "token_metadata" does not exist).
storeCall_resume(st, c) ==
    LET resumed == awaitSchemaInitialized(st.schemaInitialized)
        done(outcome) == [c EXCEPT !.pc = "done", !.outcome = outcome]
    IN  IF resumed = "throw" \/ ~st.table
        THEN [store |-> st, call |-> done("error")]
        ELSE IF c.op = "put"
        THEN [store |-> [st EXCEPT !.rows = PostgresPut(@, c.token, PutBlobRef,
                                                         PutExpiresAtEpochMs)],
              call |-> done("ok")]
        ELSE [store |-> st,
              call |-> done(IF PostgresGet(st.rows, c.token) = null
                            THEN "null" ELSE "metadata")]

\* createHttpServer after its get('__init_check__') has settled: start, or
\* throw 'Failed to initialize metadata store'
createHttpServer_after(server, c) ==
    IF server # "starting" THEN server
    ELSE IF c.outcome = "error" THEN "failed" ELSE "listening"

----------------------------------------------------------------------------
(* DualBlobStorage over two stores that implement BlobStorage: save of     *)
(* either store allocates a reference of its own and get of a store finds  *)
(* only what was saved under the reference asked for.  unreadable holds    *)
(* the references the primary can no longer serve.                         *)

\* saves and gets made on one DualBlobStorage
MaxSaves == 2
MaxGets == 1

NewDual ==
    [primary |-> <<>>, secondary |-> <<>>, unreadable |-> {},
     saves |-> <<>>, gets |-> <<>>]

\* the files of both stores: an identifier drawn for either is new to both
bothDirectories(d) ==
    [f \in (DOMAIN d.primary) \cup (DOMAIN d.secondary) |->
        IF f \in DOMAIN d.primary THEN d.primary[f] ELSE d.secondary[f]]

\* faulty variant: the secondary is written whether or not the primary failed
DualBlobStorage_save_always(d, data, ok) ==
    LET blobRef == generateBlobRef(bothDirectories(d))
    IN  IF ~ok
        THEN [d EXCEPT !.saves = Append(@, [data |-> data, result |-> "",
                                           error |-> "Error: Failed to save blob",
                                           secondary |-> "started",
                                           secondaryRef |-> ""])]
        ELSE [d EXCEPT !.primary = writeFile(@, getFilePath(blobRef), data),
                       !.saves = Append(@, [data |-> data, result |-> blobRef,
                                           error |-> "", secondary |-> "started",
                                           secondaryRef |-> ""])]

\* save, lines 56-70: the primary's save is awaited (ok = FALSE: it
\* rejected), the secondary's save is started and left running, the
\* primary's reference is returned
DualBlobStorage_save(d, data, ok) ==
    LET blobRef == generateBlobRef(bothDirectories(d))
    IN  IF ~ok
        THEN [d EXCEPT !.saves = Append(@, [data |-> data, result |-> "",
                                           error |-> "Error: Failed to save blob",
                                           secondary |-> "none",
                                           secondaryRef |-> ""])]
        ELSE [d EXCEPT !.primary = writeFile(@, getFilePath(blobRef), data),
                       !.saves = Append(@, [data |-> data, result |-> blobRef,
                                           error |-> "", secondary |-> "started",
                                           secondaryRef |-> ""])]

\* the secondary's save of save number k settles: it wrote the bytes under a
\* reference of its own, or it rejected and the catch handler logged it
DualBlobStorage_secondarySettled(d, k, ok) ==
    LET ownRef == generateBlobRef(bothDirectories(d))
    IN  IF ~ok
        THEN [d EXCEPT !.saves[k].secondary = "failed"]
        ELSE [d EXCEPT !.secondary = writeFile(@, getFilePath(ownRef), d.saves[k].data),
                       !.saves[k].secondary = "written",
                       !.saves[k].secondaryRef = ownRef]

\* what the primary answers to get
primaryGet(d, blobRef) ==
    IF blobRef \in d.unreadable THEN null ELSE LocalGet(d.primary, blobRef)

\* get, lines 72-92: the primary's bytes, else the secondary's, else null
\* (Error 'Blob not found in local or S3')
DualBlobStorage_get(d, blobRef) ==
    IF primaryGet(d, blobRef) # null THEN primaryGet(d, blobRef)
    ELSE LocalGet(d.secondary, blobRef)

----------------------------------------------------------------------------
(* Functions of start-up: the choice of the blob store and loadConfig.     *)
(* A value that is undefined in the program is the empty string here where *)
(* the program tests it with ||, which treats both alike.                  *)

\* String.prototype.split with a one-character separator
RECURSIVE split(_, _)
split(s, sep) ==
    LET k == indexOf(s, sep, 1)
    IN  IF k = 0 THEN <<s>>
        ELSE <<SubSeq(s, 1, k - 1)>> \o split(SubSeq(s, k + 1, Len(s)), sep)

\* String.prototype.toLowerCase on the letters A-Z
lowerCaseChar(c) ==
    LET k == indexOf(ALPHANUMERIC, c, 1)
    IN  IF k \in 1..26 THEN SubSeq(ALPHANUMERIC, k + 26, k + 26) ELSE c

RECURSIVE toLowerCase(_)
toLowerCase(s) ==
    IF Len(s) = 0 THEN s
    ELSE lowerCaseChar(SubSeq(s, 1, 1)) \o toLowerCase(SubSeq(s, 2, Len(s)))

\* .split(',').map(s => s.trim().toLowerCase()).filter(s => s.length > 0)
trimmedEntries(text) ==
    LET parts == split(text, ",")
        mapped == [i \in DOMAIN parts |-> toLowerCase(trim(parts[i]))]
    IN  SelectSeq(mapped, LAMBDA p : Len(p) > 0)

parseStorageString(storage) == trimmedEntries(storage)

\* a || b on strings
orElse(a, b) == IF a # "" THEN a ELSE b

\* Array.prototype.join(', ')
RECURSIVE join(_)
join(parts) ==
    IF Len(parts) = 0 THEN ""
    ELSE IF Len(parts) = 1 THEN parts[1]
    ELSE parts[1] \o ", " \o join(Tail(parts))

\* createDualBlobStorage, part_004 lines 118-133: the local store alone
createDualBlobStorage == [adapter |-> "LocalFilesystemBlobStorage", error |-> ""]

\* createBlobStorage: the adapter built, or the Error thrown
createBlobStorage(storage) ==
    LET storageBackends == parseStorageString(orElse(storage, "local"))
        validBackends == {"local", "s3"}
        invalidBackends == SelectSeq(storageBackends, LAMBDA b : b \notin validBackends)
        has(b) == \E i \in DOMAIN storageBackends : storageBackends[i] = b
        local == [adapter |-> "LocalFilesystemBlobStorage", error |-> ""]
        throw(message) == [adapter |-> "", error |-> message]
    IN  IF Len(invalidBackends) > 0
        THEN throw("Invalid storage backend(s): " \o join(invalidBackends)
                   \o ". Valid options: local, s3")
        ELSE IF Len(storageBackends) = 1
        THEN IF storageBackends[1] = "local" THEN local
             ELSE throw("S3 storage not yet implemented. Use \"local\" for now.")
        ELSE IF Len(storageBackends) = 2
        THEN IF has("local") /\ has("s3") THEN createDualBlobStorage
             ELSE throw("Invalid dual storage combination: " \o join(storageBackends)
                        \o ". Only \"local,s3\" or \"s3,local\" are supported.")
        ELSE IF Len(storageBackends) > 2
        THEN throw("Too many storage backends specified: " \o join(storageBackends)
                   \o ". Maximum 2 backends supported (local and s3).")
        ELSE local

\* a JavaScript number: an integer, or NaN
Number(n) == [nan |-> FALSE, value |-> n]
NaN == [nan |-> TRUE, value |-> 0]

\* parseInt of the texts loadConfig passes: the number of the leading
\* digits, NaN for a text without a leading digit
parseIntOrNaN(s) ==
    IF Len(s) > 0 /\ indexOf(Digits, SubSeq(s, 1, 1), 1) # 0
    THEN Number(parseInt(s)) ELSE NaN

\* String(value) of an optional number of the config file
String(value) == IF value = null THEN "undefined" ELSE ToString(value[1])

\* loadConfig, server.ts lines 109-142: env holds the environment variables
\* ("" when unset), fileConfig what config.json gave (null, "": absent)
loadConfig(env, fileConfig) ==
    [server |->
        [port |-> parseIntOrNaN(orElse(env.PORT,
                                       orElse(String(fileConfig.server.port), "3000")))],
     database |->
        [host |-> orElse(env.PG_HOST, orElse(fileConfig.database.host, "localhost")),
         port |-> parseIntOrNaN(orElse(env.PG_PORT,
                                       orElse(String(fileConfig.database.port), "5432")))],
     blobStorage |->
        [storage |-> orElse(env.BLOB_STORAGE,
                            orElse(fileConfig.blobStorage.storage, "local"))],
     supportedFileTypes |->
        orElse(env.SUPPORTED_FILE_TYPES,
               orElse(fileConfig.supportedFileTypes, "jpeg,jpg,png,webp"))]

\* uploadImage, line 157: the configured types or the default ones
supportedFileTypesStr(supportedFileTypes) ==
    orElse(supportedFileTypes, "jpeg,jpg,png,webp")

\* uploadImage's validation under a configured list of types: the message of
\* the UploadValidationError, None when the input passes
validateUnder(supportedFileTypes, input) ==
    validateUploadInput(input,
        parseSupportedFileTypes(trimmedEntries(supportedFileTypesStr(supportedFileTypes))))

\* no start-up function has been called
NoCall == [fn |-> "", input |-> null, output |-> null]

----------------------------------------------------------------------------
(* The upload page: the state of the App component and the fetches of      *)
(* POST /upload that have not settled.  A handler runs with the state of   *)
(* the latest render.                                                      *)

\* file selections and submissions of one visit of the page
MaxFileChanges == 3
MaxSubmits == 2

\* the files the visitor picks from; null: the selection is cleared
PickedFiles == {"a.png", "b.png"}

\* window.location.origin and the loaded apiUrl
Origin == "https://ward.example"
ApiUrl == "/api"

NewApp ==
    [file |-> null, state |-> "idle", response |-> null, error |-> null,
     apiUrl |-> "", inflight |-> <<>>, changes |-> 0, submits |-> 0]

\* the body the server answers to the upload of a file
uploadResponseOf(file) ==
    [url |-> "/image/" \o file, expiresAtEpochMs |-> EXPIRY_DURATION_MS]

\* onFileChange, lines 103-109
onFileChange(app, selected) ==
    [app EXCEPT !.file = selected, !.response = null, !.error = null,
                !.state = "idle", !.changes = @ + 1]

\* onSubmit until its fetch is awaited, lines 111-136
onSubmit(app) ==
    IF app.file = null \/ app.state = "uploading" THEN app
    ELSE IF app.apiUrl = ""
    THEN [app EXCEPT !.error = Some("Configuration not loaded yet. Please try again."),
                     !.state = "error"]
    ELSE [app EXCEPT !.state = "uploading", !.error = null, !.response = null,
                     !.inflight = Append(@, app.file[1]), !.submits = @ + 1]

\* the sequence without its element k
without(seq, k) == SubSeq(seq, 1, k - 1) \o SubSeq(seq, k + 1, Len(seq))

\* onSubmit after the fetch of request k has settled, lines 138-168: body is
\* the JSON of a 200 response, null for a failure
onSubmit_settled(app, k, body) ==
    IF body = null
    THEN [app EXCEPT !.error = Some("Upload failed. Please try again."),
                     !.state = "error", !.inflight = without(@, k)]
    ELSE [app EXCEPT !.response = Some([url |-> Origin \o body[1].url,
                                        expiresAtEpochMs |-> body[1].expiresAtEpochMs]),
                     !.state = "success", !.inflight = without(@, k)]

----------------------------------------------------------------------------
(* Inputs *)

Bytes(id, n) == [bytes |-> id, length |-> n]

\* payloads: empty, two accepted ones (one exactly at the cap), one over the cap
Payloads ==
    { Bytes("", 0), Bytes("X", 1024), Bytes("Y", MAX_IMAGE_BYTES),
      Bytes("Z", MAX_IMAGE_BYTES + 1) }

ContentTypes == {"image/jpeg", "image/gif", ""}

UploadRequests ==
    { [data |-> d, contentType |-> "image/jpeg"] : d \in Payloads }
    \cup { [data |-> Bytes("X", 1024), contentType |-> c] : c \in ContentTypes }

AccessTokens == Tokens \cup {"", "   "}

Started == Len(uploads) + Len(accesses)

Returned == { i \in DOMAIN uploads : uploads[i].result # null }

----------------------------------------------------------------------------
InitService ==
    /\ time = 0
    /\ token_metadata = <<>>
    /\ files = <<>>
    /\ contentTypeMap = [r \in Replicas |-> <<>>]
    /\ uploads = <<>>
    /\ accesses = <<>>

\* the service is up: createHttpServer has resolved, so the schema of the
\* metadata store is in place; nothing else has happened
Init ==
    /\ InitService
    /\ store = Listening
    /\ dual = NewDual
    /\ startup = NoCall
    /\ ui = NewApp

\* the clocks move forward to one of the given instants
TickIn(points) ==
    /\ \E t \in points : t > time /\ time' = t
    /\ UNCHANGED <<token_metadata, files, contentTypeMap, uploads, accesses, store, dual, startup, ui>>

Tick == TickIn(TimePoints)

Called(rec, call) == \E k \in DOMAIN rec.calls : rec.calls[k] = call

\* an upload arrives; validation rejects it, or the blob is written, the token
\* minted and the put issued
UploadStartWith(limit, randoms) ==
    /\ Started < limit
    /\ \E r \in Replicas, input \in UploadRequests, randomBytes \in randoms :
           LET blobRef == generateBlobRef(files)
               u == uploadImage_begin(r, input, Some(blobRef),
                                      Some(generateToken(randomBytes)), now(r))
               saved == Called(u, "blobStorage.save")
           IN  /\ uploads' = Append(uploads, handleUpload(u))
               /\ files' = IF saved THEN writeFile(files, getFilePath(blobRef), input.data)
                           ELSE files
               /\ contentTypeMap' =
                      IF saved
                      THEN [contentTypeMap EXCEPT ![r] =
                                setContentType(@, blobRef, input.contentType)]
                      ELSE contentTypeMap
    /\ UNCHANGED <<time, token_metadata, accesses, store, dual, startup, ui>>

UploadStart(limit) == UploadStartWith(limit, RandomOutputs)

\* an upload arrives and LocalFilesystemBlobStorage.save rejects
UploadSaveFails(limit) ==
    /\ Started < limit
    /\ \E r \in Replicas, input \in UploadRequests :
           LET u == uploadImage_begin(r, input, null, null, now(r))
           IN  /\ Called(u, "blobStorage.save")
               /\ uploads' = Append(uploads,
                                    handleUpload([u EXCEPT !.fault = "blobStorage.save"]))
    /\ UNCHANGED <<time, token_metadata, files, contentTypeMap, accesses, store, dual, startup, ui>>

\* an upload arrives, the blob is written and generateToken throws
UploadMintFails(limit) ==
    /\ Started < limit
    /\ \E r \in Replicas, input \in UploadRequests :
           LET blobRef == generateBlobRef(files)
               u == uploadImage_begin(r, input, Some(blobRef), null, now(r))
           IN  /\ Called(u, "tokenService.generateToken")
               /\ uploads' = Append(uploads,
                                    handleUpload([u EXCEPT !.fault =
                                                      "tokenService.generateToken"]))
               /\ files' = writeFile(files, getFilePath(blobRef), input.data)
               /\ contentTypeMap' = [contentTypeMap EXCEPT ![r] =
                                         setContentType(@, blobRef, input.contentType)]
    /\ UNCHANGED <<time, token_metadata, accesses, store, dual, startup, ui>>

\* PostgresMetadataStore.put rejects
UploadPutFails(i) ==
    /\ uploads[i].pc = "put"
    /\ uploads' = [uploads EXCEPT ![i] =
                       handleUpload([uploadImage_afterPut(@, FALSE)
                                         EXCEPT !.fault = "metadataStore.put"])]
    /\ UNCHANGED <<time, token_metadata, files, contentTypeMap, accesses, store, dual, startup, ui>>

\* the upsert commits and uploadImage returns
UploadPut(i) ==
    /\ uploads[i].pc = "put"
    /\ LET args == uploads[i].putArgs[1]
       IN  token_metadata' =
               PostgresPut(token_metadata, args.token, args.blobRef, args.expiresAtEpochMs)
    /\ uploads' = [uploads EXCEPT ![i] = handleUpload(uploadImage_afterPut(@, TRUE))]
    /\ UNCHANGED <<time, files, contentTypeMap, accesses, store, dual, startup, ui>>

\* an access arrives; the lookup answers and the handler decides
AccessStart(limit) ==
    /\ Started < limit
    /\ \E r \in Replicas, token \in AccessTokens :
           LET a == accessImage_begin(r, token, TRUE,
                                      PostgresGet(token_metadata, token), now(r))
           IN  accesses' = Append(accesses, handleImage([a EXCEPT !.after = Returned],
                                                        contentTypeMap[r]))
    /\ UNCHANGED <<time, token_metadata, files, contentTypeMap, uploads, store, dual, startup, ui>>

\* an access arrives and PostgresMetadataStore.get rejects
AccessGetFails(limit) ==
    /\ Started < limit
    /\ \E r \in Replicas, token \in AccessTokens :
           LET a == accessImage_begin(r, token, FALSE, null, now(r))
           IN  /\ Called(a, "metadataStore.get")
               /\ accesses' = Append(accesses,
                                      handleImage([a EXCEPT !.after = Returned,
                                                            !.fault = "metadataStore.get"],
                                                  contentTypeMap[r]))
    /\ UNCHANGED <<time, token_metadata, files, contentTypeMap, uploads, store, dual, startup, ui>>

\* readFile fails (I/O error)
AccessBlobFails(j) ==
    /\ accesses[j].pc = "blob"
    /\ accesses' = [accesses EXCEPT ![j] =
                        handleImage([accessImage_afterBlob(@, null)
                                         EXCEPT !.fault = "blobStorage.get"],
                                    contentTypeMap[@.replica])]
    /\ UNCHANGED <<time, token_metadata, files, contentTypeMap, uploads, store, dual, startup, ui>>

\* LocalFilesystemBlobStorage.get settles and accessImage returns
AccessBlob(j) ==
    /\ accesses[j].pc = "blob"
    /\ accesses' = [accesses EXCEPT ![j] =
                        handleImage(accessImage_afterBlob(@, LocalGet(files,
                                                                      @.metadata[1].blobRef)),
                                    contentTypeMap[@.replica])]
    /\ UNCHANGED <<time, token_metadata, files, contentTypeMap, uploads, store, dual, startup, ui>>

Step(limit) ==
    \/ Tick
    \/ UploadStart(limit)
    \/ UploadSaveFails(limit)
    \/ UploadMintFails(limit)
    \/ \E i \in DOMAIN uploads : UploadPutFails(i)
    \/ \E i \in DOMAIN uploads : UploadPut(i)
    \/ AccessStart(limit)
    \/ AccessGetFails(limit)
    \/ \E j \in DOMAIN accesses : AccessBlobFails(j)
    \/ \E j \in DOMAIN accesses : AccessBlob(j)

Next == Step(MaxRequests)

Spec == Init /\ [][Next]_vars

\* the same system with room for one more request
NextDeep == Step(MaxRequests + 1)

SpecDeep == Init /\ [][NextDeep]_vars

\* the values of one byte of a Buffer
ByteValues == 0..255

\* outputs of crypto.randomBytes(8) in which one byte takes every value while
\* the other seven are all 0 or all 255
WideRandomOutputs ==
    { [k \in 1..8 |-> IF k = p THEN b ELSE c] :
          p \in 1..8, b \in ByteValues, c \in {0, 255} }

\* GET of the url an upload's response gave, as it is or with a query string
AccessUrl ==
    /\ accesses = <<>>
    /\ \E i \in Returned, r \in Replicas, query \in {"", "?v=1"} :
           LET url == uploads[i].response[1].body.url \o query
               token == handleImage_token(url)
               a == accessImage_begin(r, token, TRUE,
                                      PostgresGet(token_metadata, token), now(r))
           IN  accesses' = Append(accesses, handleImage([a EXCEPT !.after = Returned],
                                                        contentTypeMap[r]))
    /\ UNCHANGED <<time, token_metadata, files, contentTypeMap, uploads, store, dual, startup, ui>>

\* one upload, its token minted from any of the wide outputs, and one access
\* through the url returned
NextMint ==
    \/ uploads = <<>> /\ UploadStartWith(MaxRequests, WideRandomOutputs)
    \/ \E i \in DOMAIN uploads : UploadPut(i)
    \/ AccessUrl
    \/ \E j \in DOMAIN accesses : AccessBlob(j)

SpecMint == Init /\ [][NextMint]_vars

\* the instants of the lifetime specification: the upload, the nominal
\* expiry of a token minted at 0 on a replica without offset, and just after
LivePoints == {0, 60000, 60001}

\* an instant at which every record written from LivePoints is past its
\* grace window on every replica
Horizon == 60001 + EXPIRY_DURATION_MS + 2 * CLOCK_SKEW_TOLERANCE_MS + 1

TickHorizon ==
    /\ time < Horizon
    /\ time' = Horizon
    /\ UNCHANGED <<token_metadata, files, contentTypeMap, uploads, accesses, store, dual, startup, ui>>

\* uploads arrive until the horizon, accesses at any time; the clocks keep
\* advancing
NextLive ==
    \/ TickIn(LivePoints)
    \/ TickHorizon
    \/ time < Horizon /\ UploadStart(MaxRequests + 1)
    \/ \E i \in DOMAIN uploads : UploadPut(i)
    \/ AccessStart(MaxRequests + 1)
    \/ \E j \in DOMAIN accesses : AccessBlob(j)

SpecLive == Init /\ [][NextLive]_vars /\ WF_vars(TickHorizon)

----------------------------------------------------------------------------
(* The metadata store from its construction: createHttpServer builds the   *)
(* store and calls get('__init_check__'); further puts and gets may be     *)
(* made at any time; the schema bootstrap completes or fails.              *)

Idle == dual = NewDual /\ startup = NoCall /\ ui = NewApp

InitStore ==
    /\ InitService
    /\ \E table \in BOOLEAN : store = NewStore(table)
    /\ Idle

\* put or get is called on the instance and reaches its first await
StoreCall ==
    /\ Len(store.calls) < MaxCalls
    /\ \E op \in {"put", "get"} :
           store' = [store EXCEPT !.calls =
                         Append(@, NewCall(op, "AAAAAAAA", store.schemaInitialized))]
    /\ UNCHANGED <<service, dual, startup, ui>>

\* initializeSchema resolves: CREATE TABLE IF NOT EXISTS has run
InitializeSchema ==
    /\ store.schemaInitialized = "pending"
    /\ store' = [store EXCEPT !.schemaInitialized = "fulfilled", !.table = TRUE]
    /\ UNCHANGED <<service, dual, startup, ui>>

\* initializeSchema rejects: pool.connect or the CREATE TABLE query failed
InitializeSchemaFails ==
    /\ store.schemaInitialized = "pending"
    /\ store' = [store EXCEPT !.schemaInitialized = "rejected"]
    /\ UNCHANGED <<service, dual, startup, ui>>

\* call k resumes from `await this.schemaInitialized` and its query settles;
\* the first call is createHttpServer's, which then starts the server or throws
StoreResume(k) ==
    /\ store.calls[k].pc = "await"
    /\ awaitSchemaInitialized(store.schemaInitialized) # "pending"
    /\ LET r == storeCall_resume(store, store.calls[k])
       IN  store' = [r.store EXCEPT
                         !.calls[k] = r.call,
                         !.server = IF k = 1 THEN createHttpServer_after(@, r.call) ELSE @]
    /\ UNCHANGED <<service, dual, startup, ui>>

\* call k resumes and pool.query rejects
StoreQueryFails(k) ==
    /\ store.calls[k].pc = "await"
    /\ awaitSchemaInitialized(store.schemaInitialized) = "resume"
    /\ LET failed == [store.calls[k] EXCEPT !.pc = "done", !.outcome = "error"]
       IN  store' = [store EXCEPT
                         !.calls[k] = failed,
                         !.server = IF k = 1 THEN createHttpServer_after(@, failed) ELSE @]
    /\ UNCHANGED <<service, dual, startup, ui>>

NextStore ==
    \/ StoreCall
    \/ InitializeSchema
    \/ InitializeSchemaFails
    \/ \E k \in DOMAIN store.calls : StoreResume(k)
    \/ \E k \in DOMAIN store.calls : StoreQueryFails(k)

SpecStore == InitStore /\ [][NextStore]_vars

----------------------------------------------------------------------------
(* A DualBlobStorage in use: saves, the secondary writes they leave        *)
(* running, gets, and the primary losing blobs.                            *)

DualPayloads == { Bytes("X", 1024), Bytes("Y", 2048) }

\* the references save has returned
DualRefs == { dual.saves[k].result : k \in DOMAIN dual.saves } \ {""}

DualSave ==
    /\ Len(dual.saves) < MaxSaves
    /\ \E data \in DualPayloads : dual' = DualBlobStorage_save(dual, data, TRUE)
    /\ UNCHANGED <<service, store, startup, ui>>

\* the primary's save rejects
DualSaveFails ==
    /\ Len(dual.saves) < MaxSaves
    /\ \E data \in DualPayloads : dual' = DualBlobStorage_save(dual, data, FALSE)
    /\ UNCHANGED <<service, store, startup, ui>>

SecondaryWrites(k) ==
    /\ dual.saves[k].secondary = "started"
    /\ dual' = DualBlobStorage_secondarySettled(dual, k, TRUE)
    /\ UNCHANGED <<service, store, startup, ui>>

SecondaryFails(k) ==
    /\ dual.saves[k].secondary = "started"
    /\ dual' = DualBlobStorage_secondarySettled(dual, k, FALSE)
    /\ UNCHANGED <<service, store, startup, ui>>

\* the primary can no longer serve a blob (its file is gone or unreadable)
PrimaryLoses ==
    /\ \E blobRef \in DualRefs \ dual.unreadable :
           dual' = [dual EXCEPT !.unreadable = @ \cup {blobRef}]
    /\ UNCHANGED <<service, store, startup, ui>>

\* get of a reference save returned, or of one no save returned; the record
\* keeps what either store held when get ran
DualGet ==
    /\ Len(dual.gets) < MaxGets
    /\ \E blobRef \in DualRefs \cup {generateBlobRef(bothDirectories(dual))} :
           dual' = [dual EXCEPT !.gets =
                        Append(@, [blobRef |-> blobRef,
                                   result |-> DualBlobStorage_get(dual, blobRef),
                                   primary |-> primaryGet(dual, blobRef),
                                   mirrored |->
                                       { dual.saves[k].data : k \in
                                           { n \in DOMAIN dual.saves :
                                               /\ dual.saves[n].result = blobRef
                                               /\ dual.saves[n].secondary = "written" } }])]
    /\ UNCHANGED <<service, store, startup, ui>>

NextDual ==
    \/ DualSave
    \/ DualSaveFails
    \/ \E k \in DOMAIN dual.saves : SecondaryWrites(k)
    \/ \E k \in DOMAIN dual.saves : SecondaryFails(k)
    \/ PrimaryLoses
    \/ DualGet

SpecDual == Init /\ [][NextDual]_vars

----------------------------------------------------------------------------
(* Start-up functions applied to inputs drawn from bounded sets *)

Quiet == store = Listening /\ dual = NewDual /\ ui = NewApp

\* entries of a BLOB_STORAGE string, and the strings of one to three entries
StorageEntries == {"local", "s3", " S3 ", "Local", "gcs", ""}
StorageLists ==
    UNION { [1..n -> StorageEntries] : n \in 1..3 }

\* the entries joined with commas
RECURSIVE commaJoin(_)
commaJoin(entries) ==
    IF Len(entries) = 1 THEN entries[1]
    ELSE entries[1] \o "," \o commaJoin(Tail(entries))

InitStorage ==
    /\ InitService /\ Quiet
    /\ startup \in { [fn |-> "createBlobStorage",
                      input |-> Some([entries |-> l, storage |-> commaJoin(l)]),
                      output |-> null] : l \in StorageLists }

CreateBlobStorage ==
    /\ startup.fn = "createBlobStorage" /\ startup.output = null
    /\ startup' = [startup EXCEPT !.output = Some(createBlobStorage(startup.input[1].storage))]
    /\ UNCHANGED <<service, store, dual, ui>>

SpecStorage == InitStorage /\ [][CreateBlobStorage]_vars

\* generateToken on every value of the byte at one position; the output
\* counts, per character of the alphabet, the byte values mapped to it
InitBytes ==
    /\ InitService /\ Quiet
    /\ startup \in { [fn |-> "generateToken",
                      input |-> Some([position |-> p, byte |-> 0]),
                      output |-> Some([c \in 1..Len(ALPHANUMERIC) |-> 0])] : p \in 1..8 }

MapByte ==
    /\ startup.fn = "generateToken"
    /\ startup.input[1].byte \in ByteValues
    /\ LET p == startup.input[1].position
           b == startup.input[1].byte
           token == generateToken([k \in 1..8 |-> IF k = p THEN b ELSE 0])
           c == indexOf(ALPHANUMERIC, SubSeq(token, p, p), 1)
       IN  startup' = [startup EXCEPT !.input = Some([position |-> p, byte |-> b + 1]),
                                      !.output = Some([@[1] EXCEPT ![c] = @ + 1])]
    /\ UNCHANGED <<service, store, dual, ui>>

SpecBytes == InitBytes /\ [][MapByte]_vars

\* entries of a SUPPORTED_FILE_TYPES string, the strings of one or two
\* entries, and the content types an upload declares
TypeEntries == {"jpeg", "JPG", " png ", "gif", "image/webp", "bmp", ""}
TypeLists == UNION { [1..n -> TypeEntries] : n \in 1..2 }
DeclaredTypes ==
    {"image/jpeg", "image/jpg", "image/png", "image/gif", "image/webp", "image/bmp",
     "IMAGE/PNG"}

InitTypes ==
    /\ InitService /\ Quiet
    /\ startup \in { [fn |-> "validateUploadInput",
                      input |-> Some([entries |-> l, supportedFileTypes |-> commaJoin(l),
                                      contentType |-> c]),
                      output |-> null] : l \in TypeLists, c \in DeclaredTypes }

ValidateUnder ==
    /\ startup.fn = "validateUploadInput" /\ startup.output = null
    /\ startup' = [startup EXCEPT !.output =
                       Some(validateUnder(startup.input[1].supportedFileTypes,
                                          [data |-> Bytes("X", 1024),
                                           contentType |-> startup.input[1].contentType]))]
    /\ UNCHANGED <<service, store, dual, ui>>

SpecTypes == InitTypes /\ [][ValidateUnder]_vars

\* the environment and the config file loadConfig may find
Environments ==
    [PORT : {"", "8080"}, PG_PORT : {"", "6543"}, PG_HOST : {"", "db.env"},
     BLOB_STORAGE : {"", "s3"}, SUPPORTED_FILE_TYPES : {"", "png"}]
FileConfigs ==
    [server : [port : {null, Some(4000)}],
     database : [port : {null, Some(5433)}, host : {"", "db.file"}],
     blobStorage : [storage : {"", "local,s3"}],
     supportedFileTypes : {"", "gif"}]

InitConfig ==
    /\ InitService /\ Quiet
    /\ startup \in { [fn |-> "loadConfig",
                      input |-> Some([env |-> e, fileConfig |-> f]),
                      output |-> null] : e \in Environments, f \in FileConfigs }

LoadConfig ==
    /\ startup.fn = "loadConfig" /\ startup.output = null
    /\ startup' = [startup EXCEPT !.output =
                       Some(loadConfig(startup.input[1].env, startup.input[1].fileConfig))]
    /\ UNCHANGED <<service, store, dual, ui>>

SpecConfig == InitConfig /\ [][LoadConfig]_vars

----------------------------------------------------------------------------
(* The upload page in use *)

\* config.json has been fetched: apiUrl is set
ConfigLoads ==
    /\ ui.apiUrl = ""
    /\ ui' = [ui EXCEPT !.apiUrl = ApiUrl]
    /\ UNCHANGED <<service, store, dual, startup>>

\* the visitor picks a file or clears the selection
FileChange ==
    /\ ui.changes < MaxFileChanges
    /\ \E selected \in {null} \cup { Some(f) : f \in PickedFiles } :
           ui' = onFileChange(ui, selected)
    /\ UNCHANGED <<service, store, dual, startup>>

\* the form is submitted
Submit ==
    /\ ui.submits < MaxSubmits
    /\ ui' = onSubmit(ui)
    /\ UNCHANGED <<service, store, dual, startup>>

\* the fetch of request k resolves with 200 and the body of that upload
FetchSucceeds(k) ==
    /\ ui' = onSubmit_settled(ui, k, Some(uploadResponseOf(ui.inflight[k])))
    /\ UNCHANGED <<service, store, dual, startup>>

\* the fetch of request k fails or the server answers an error
FetchFails(k) ==
    /\ ui' = onSubmit_settled(ui, k, null)
    /\ UNCHANGED <<service, store, dual, startup>>

NextUi ==
    \/ ConfigLoads
    \/ FileChange
    \/ Submit
    \/ \E k \in DOMAIN ui.inflight : FetchSucceeds(k)
    \/ \E k \in DOMAIN ui.inflight : FetchFails(k)

SpecUi == Init /\ [][NextUi]_vars

----------------------------------------------------------------------------
(* Properties *)

Allowed(a) == a.result # null /\ a.result[1].allowed

DeniedAs(a, reason) == a.result = Denied(reason)

\* the uploads whose put wrote the record an access read
WroteRecordOf(a) ==
    { i \in DOMAIN uploads :
        /\ uploads[i].putArgs # null
        /\ uploads[i].putArgs[1].token = a.token
        /\ uploads[i].putArgs[1].blobRef = a.metadata[1].blobRef
        /\ uploads[i].putArgs[1].expiresAtEpochMs = a.metadata[1].expiresAtEpochMs }

\* C1: an access that found a stored record with expiry E and read the clock
\* as now goes on to the blob (and, unless the blob read fails, returns
\* allowed) iff now <= E + 5000, and returns denied 'expired' iff now > E + 5000
C1_PolicyBoundary ==
    \A j \in DOMAIN accesses :
        LET a == accesses[j]
        IN  a.metadata # null =>
                LET E == a.metadata[1].expiresAtEpochMs
                    nowMs == a.nowMs[1]
                IN  /\ WroteRecordOf(a) # {}
                    /\ Called(a, "blobStorage.get") <=> nowMs <= E + 5000
                    /\ DeniedAs(a, "expired") <=> nowMs > E + 5000
                    /\ (a.pc = "done" /\ a.fault = "") =>
                           (Allowed(a) <=> nowMs <= E + 5000)

\* an access at the last instant of the grace window was allowed
C1_Witness ==
    \E j \in DOMAIN accesses :
        /\ Allowed(accesses[j])
        /\ accesses[j].nowMs[1] = accesses[j].metadata[1].expiresAtEpochMs + 5000

\* C2: an access that returned denied (invalid, missing or expired) did not
\* invoke blobStorage.get
C2_DeniedNeverReadsBlob ==
    \A j \in DOMAIN accesses :
        LET a == accesses[j]
        IN  (a.result # null /\ ~a.result[1].allowed) =>
                /\ a.result[1].reason \in {"invalid", "missing", "expired"}
                /\ ~Called(a, "blobStorage.get")

\* an access found the record of its token and was denied as expired
C2_Witness ==
    \E j \in DOMAIN accesses :
        /\ DeniedAs(accesses[j], "expired")
        /\ Called(accesses[j], "metadataStore.get")
        /\ accesses[j].token \in DOMAIN token_metadata

C4_AtClockRead ==
    \A i \in DOMAIN uploads' :
        (i \notin DOMAIN uploads /\ uploads'[i].putArgs # null) =>
            /\ uploads'[i].nowMs = Some(time + clockOffset[uploads'[i].replica])
            /\ uploads'[i].putArgs[1].expiresAtEpochMs =
                   time + clockOffset[uploads'[i].replica] + 60000

\* C4, at the step in which the put commits and the upload returns: the row
\* of the token holds the expiry passed to put, and that expiry is returned
C4_AtReturn ==
    \A i \in DOMAIN uploads :
        (uploads[i].result = null /\ uploads'[i].result # null) =>
            LET E == uploads[i].putArgs[1].expiresAtEpochMs
                stored == PostgresGet(token_metadata', uploads'[i].result[1].token)
            IN  /\ E = uploads[i].nowMs[1] + 60000
                /\ stored # null
                /\ stored[1].expiresAtEpochMs = E
                /\ stored[1].blobRef = uploads'[i].result[1].blobRef
                /\ uploads'[i].result[1].expiresAtEpochMs = E

\* C4: for every successful upload the expiry passed to put is the clock value
\* read during the upload plus exactly 60 000, and the returned expiry equals
\* the stored one
C4_ExpiryArithmetic == [][C4_AtClockRead /\ C4_AtReturn]_vars

\* an upload on the replica whose clock reads 5 000 returned expiry 65 000,
\* which is what the table holds for its token
C4_Witness ==
    \E i \in DOMAIN uploads :
        /\ uploads[i].result # null
        /\ uploads[i].nowMs = Some(5000)
        /\ uploads[i].result[1].expiresAtEpochMs = 65000
        /\ PostgresGet(token_metadata, uploads[i].token) =
               Some([blobRef |-> uploads[i].blobRef, expiresAtEpochMs |-> 65000])

UploadOrder == <<"blobStorage.save", "tokenService.generateToken", "metadataStore.put">>

PassedValidation(u) == ~startsWith(u.error, "UploadValidationError")

\* C5: in an upload that passes validation the collaborators are invoked in
\* the order save, generateToken, put, none of them twice; generateToken is
\* invoked only once save has written the blob, put only once the token is
\* minted; all three are invoked when neither save nor generateToken fails
C5_UploadCallOrder ==
    \A i \in DOMAIN uploads :
        LET u == uploads[i]
        IN  PassedValidation(u) =>
                /\ \E n \in 1..3 : u.calls = SubSeq(UploadOrder, 1, n)
                /\ u.fault \in {"", "metadataStore.put"} => u.calls = UploadOrder
                /\ Called(u, "tokenService.generateToken") =>
                       /\ u.blobRef # ""
                       /\ getFilePath(u.blobRef) \in DOMAIN files
                       /\ files[getFilePath(u.blobRef)] = u.data
                /\ Called(u, "metadataStore.put") =>
                       /\ u.token \in Tokens
                       /\ u.putArgs[1].token = u.token
                       /\ u.putArgs[1].blobRef = u.blobRef

\* an upload returned after invoking save, generateToken and put, in that order
C5_Witness ==
    \E i \in DOMAIN uploads :
        /\ uploads[i].result # null
        /\ uploads[i].calls = UploadOrder
        /\ uploads[i].token \in DOMAIN token_metadata

\* the metadata rows are exactly the records put by uploads that returned
NoPartialRecords ==
    \A t \in DOMAIN token_metadata :
        \E i \in DOMAIN uploads :
            /\ uploads[i].result # null
            /\ uploads[i].fault = ""
            /\ uploads[i].result[1].token = t
            /\ PostgresGet(token_metadata, t) =
                   Some([blobRef |-> uploads[i].result[1].blobRef,
                         expiresAtEpochMs |-> uploads[i].result[1].expiresAtEpochMs])

FaultIsolated ==
    \A i \in DOMAIN uploads :
        LET u == uploads[i]
        IN  /\ u.fault = "blobStorage.save" =>
                /\ ~Called(u, "tokenService.generateToken")
                /\ ~Called(u, "metadataStore.put")
                /\ u.token = "" /\ u.putArgs = null
                /\ u.pc = "done" /\ u.result = null /\ u.error # ""
            /\ u.fault = "tokenService.generateToken" =>
                /\ ~Called(u, "metadataStore.put")
                /\ u.token = "" /\ u.putArgs = null
                /\ u.pc = "done" /\ u.result = null /\ u.error # ""

\* in the step in which save or generateToken fails the table is left as it was
FaultLeavesIndex ==
    \A i \in DOMAIN uploads' :
        (i \notin DOMAIN uploads
         /\ uploads'[i].fault \in {"blobStorage.save", "tokenService.generateToken"})
            => token_metadata' = token_metadata

\* C6: when blobStorage.save fails no token is generated and no record is put;
\* when generateToken fails no record is put; in both cases uploadImage fails
\* and the metadata table is left exactly as it was
C6_FaultIsolation ==
    /\ [](FaultIsolated /\ NoPartialRecords)
    /\ [][FaultLeavesIndex]_vars

\* one upload failed in save and another in generateToken
C6_Witness ==
    /\ \E i \in DOMAIN uploads : uploads[i].fault = "blobStorage.save"
    /\ \E i \in DOMAIN uploads : uploads[i].fault = "tokenService.generateToken"

\* the content types accepted when no configuration is supplied
\* (upload-orchestration/index.ts line 157)
AcceptedByDefault == {"image/jpeg", "image/png", "image/webp"}

InvalidInput(u) ==
    \/ u.data.length = 0
    \/ u.data.length > 5242880
    \/ u.contentType = ""
    \/ u.contentType \notin AcceptedByDefault

\* C7: an upload with empty data, data over the cap, no contentType or a
\* contentType outside the accepted set is rejected by validation and invokes
\* none of blobStorage.save, generateToken and metadataStore.put
C7_RejectedTouchesNothing ==
    \A i \in DOMAIN uploads :
        LET u == uploads[i]
        IN  /\ InvalidInput(u) <=> ~PassedValidation(u)
            /\ InvalidInput(u) =>
                   /\ u.calls = <<>>
                   /\ u.blobRef = "" /\ u.token = "" /\ u.putArgs = null
                   /\ u.pc = "done" /\ u.result = null
            /\ Cardinality(DOMAIN files)
                   = Cardinality({k \in DOMAIN uploads : uploads[k].blobRef # ""})

\* a payload of 5 242 881 bytes and one of an unaccepted type were rejected
C7_Witness ==
    /\ \E i \in DOMAIN uploads :
           uploads[i].data.length = 5242881 /\ ~PassedValidation(uploads[i])
    /\ \E i \in DOMAIN uploads :
           uploads[i].contentType = "image/gif" /\ ~PassedValidation(uploads[i])

IsBlank(s) == \A k \in 1..Len(s) : SubSeq(s, k, k) = " "

\* C8: an access with an empty or whitespace-only token returns denied
\* 'invalid' and invokes neither metadataStore.get nor blobStorage.get
C8_BlankTokenInvalid ==
    \A j \in DOMAIN accesses :
        LET a == accesses[j]
        IN  IsBlank(a.token) =>
                /\ DeniedAs(a, "invalid")
                /\ a.calls = <<>>
                /\ a.pc = "done" /\ a.metadata = null

\* a whitespace-only token was denied as invalid while the table held a record
C8_Witness ==
    \E j \in DOMAIN accesses :
        /\ accesses[j].token = "   "
        /\ DeniedAs(accesses[j], "invalid")
        /\ token_metadata # <<>>

\* C9 as stated: after an upload has returned (T, E) for bytes X, an access
\* to T made while now <= E + 5000 is not denied as missing and, when it
\* returns, is allowed with bytes X
C9_UploadThenAccess ==
    \A j \in DOMAIN accesses :
        \A i \in accesses[j].after :
            LET a == accesses[j]
                u == uploads[i]
            IN  a.token = u.result[1].token =>
                    /\ ~DeniedAs(a, "missing")
                    /\ (a.nowMs # null
                        /\ a.nowMs[1] <= u.result[1].expiresAtEpochMs + 5000
                        /\ a.pc = "done" /\ a.fault = "") =>
                           (Allowed(a) /\ a.result[1].blob = u.data)

\* C10 as stated: no two uploads that returned hold the same token
C10_TokensNeverReused ==
    \A i, k \in Returned :
        i # k => uploads[i].result[1].token # uploads[k].result[1].token

\* C11 as stated: once an upload has put the record of a token, every later
\* metadataStore.get of the token returns the blob reference and the expiry
\* of that put
C11_RecordsImmutable ==
    \A i \in Returned :
        PostgresGet(token_metadata, uploads[i].result[1].token) =
            Some([blobRef |-> uploads[i].result[1].blobRef,
                  expiresAtEpochMs |-> uploads[i].result[1].expiresAtEpochMs])

\* C12 as stated: once an access to a token has returned denied 'expired',
\* no later access to that token is allowed, whichever replicas serve them
C12_ExpiredStaysExpired ==
    \A j, k \in DOMAIN accesses :
        (j < k
         /\ accesses[j].token = accesses[k].token
         /\ DeniedAs(accesses[j], "expired"))
            => ~Allowed(accesses[k])

AccessCalls == {"metadataStore.get", "blobStorage.get"}

\* accessImage invokes nothing but the two reads
AccessOnlyReads ==
    \A j \in DOMAIN accesses :
        \A k \in DOMAIN accesses[j].calls : accesses[j].calls[k] \in AccessCalls

\* a step of an access leaves the table and the blob directory as they were
AccessLeavesStores ==
    accesses' # accesses => (token_metadata' = token_metadata /\ files' = files)

\* accesses that were let through on the same record return the same bytes
AccessIdempotent ==
    \A j, k \in DOMAIN accesses :
        (Allowed(accesses[j]) /\ Allowed(accesses[k])
         /\ accesses[j].token = accesses[k].token
         /\ accesses[j].metadata = accesses[k].metadata)
            => accesses[j].result[1].blob = accesses[k].result[1].blob

\* C13: accessImage invokes neither metadataStore.put nor a blob write, no
\* step of an access changes the record of a token (nor any record or blob),
\* and repeated accesses to a token within its valid window return identical
\* bytes
C13_AccessReadOnly ==
    /\ [](AccessOnlyReads /\ AccessIdempotent)
    /\ [][AccessLeavesStores]_vars

\* two accesses to the same token were both allowed, with the same bytes, and
\* the record they read is still the one in the table
C13_Witness ==
    \E j, k \in DOMAIN accesses :
        /\ j < k
        /\ Allowed(accesses[j]) /\ Allowed(accesses[k])
        /\ accesses[j].token = accesses[k].token
        /\ accesses[j].result[1].blob = accesses[k].result[1].blob
        /\ PostgresGet(token_metadata, accesses[j].token) = accesses[j].metadata

\* the cases of an access in which no record vouches for the token: the token
\* is blank, the lookup failed, or the lookup found nothing
Ambiguous(a) ==
    \/ IsBlank(a.token)
    \/ a.fault = "metadataStore.get"
    \/ (Called(a, "metadataStore.get") /\ a.metadata = null)

\* C14 as stated: when the token is malformed, the record is missing or the
\* metadata index cannot answer, accessImage returns a denied decision and
\* reads no blob
C14_AmbiguityDenied ==
    \A j \in DOMAIN accesses :
        Ambiguous(accesses[j]) =>
            /\ accesses[j].result # null
            /\ ~accesses[j].result[1].allowed
            /\ ~Called(accesses[j], "blobStorage.get")

\* the access was refused: the path held no token, or accessImage returned a
\* denied result
Refused(a) ==
    \/ a.token = ""
    \/ \E reason \in {"missing", "expired", "invalid"} : DeniedAs(a, reason)

\* C15: the responses (status, headers, body) the HTTP adapter writes for
\* refused accesses are identical whatever the reason (missing, expired,
\* invalid, empty token): each is the same 302 to the same location
C15_UniformDenial ==
    /\ \A j \in DOMAIN accesses :
           Refused(accesses[j]) =>
               /\ accesses[j].response # null
               /\ accesses[j].response[1].status = 302
               /\ accesses[j].response[1].headers.Location =
                      "/?error=The%20URL%20may%20be%20invalid%20or%20the%20image%20has%20expired."
               /\ accesses[j].response[1].body = ""
    /\ \A j, k \in DOMAIN accesses :
           (Refused(accesses[j]) /\ Refused(accesses[k]))
               => accesses[j].response = accesses[k].response

\* an access denied as missing and one denied as invalid got the same response
C15_Witness ==
    \E j, k \in DOMAIN accesses :
        /\ DeniedAs(accesses[j], "missing")
        /\ DeniedAs(accesses[k], "invalid")
        /\ accesses[j].response # null
        /\ accesses[j].response = accesses[k].response

\* an access denied as expired got the 302
C15_WitnessExpired ==
    \E j \in DOMAIN accesses :
        /\ DeniedAs(accesses[j], "expired")
        /\ accesses[j].response # null
        /\ accesses[j].response[1].status = 302

\* C16 as stated: the response to an allowed access carries the uploaded
\* bytes and the content type declared at upload, whichever replica serves it
C16_SameResponseOnEveryReplica ==
    \A j \in DOMAIN accesses :
        \A i \in DOMAIN uploads :
            (Allowed(accesses[j])
             /\ accesses[j].response # null
             /\ uploads[i].blobRef = accesses[j].result[1].metadata.blobRef)
                => /\ accesses[j].response[1].status = 200
                   /\ accesses[j].response[1].body = uploads[i].data
                   /\ accesses[j].response[1].headers.ContentType = uploads[i].contentType

\* the uploads whose put for token t commits in this step
Committing(t) ==
    { i \in DOMAIN uploads :
        /\ uploads[i].pc = "put"
        /\ uploads'[i].result # null
        /\ uploads[i].putArgs[1].token = t }

\* a step in which a put for t commits makes get(t) return what was put;
\* every other step leaves the answer of get(t) as it was
GetFollowsLatestPut ==
    \A t \in Tokens :
        IF Committing(t) # {}
        THEN \E i \in Committing(t) :
                 PostgresGet(token_metadata', t) =
                     Some([blobRef |-> uploads[i].putArgs[1].blobRef,
                           expiresAtEpochMs |-> uploads[i].putArgs[1].expiresAtEpochMs])
        ELSE PostgresGet(token_metadata', t) = PostgresGet(token_metadata, t)

\* get(t) is null exactly when no put for t has succeeded
NullIffNeverPut ==
    \A t \in Tokens :
        PostgresGet(token_metadata, t) = null
            <=> ~(\E i \in Returned : uploads[i].result[1].token = t)

\* C17: metadataStore.get(T) returns the blobRef and expiresAtEpochMs of the
\* most recent successful put for T (a later put with the same T replaces
\* the earlier one) and null iff no put for T has succeeded; the answer
\* comes from the shared table, whichever store instance asks
C17_GetReturnsLatestPut ==
    /\ []NullIffNeverPut
    /\ [][GetFollowsLatestPut]_vars

\* two puts for one token succeeded in turn, with different expiries, and get
\* returns the second upload's record
C17_Witness ==
    \E i, k \in Returned :
        /\ i < k
        /\ uploads[i].result[1].token = uploads[k].result[1].token
        /\ uploads[i].result[1].expiresAtEpochMs < uploads[k].result[1].expiresAtEpochMs
        /\ PostgresGet(token_metadata, uploads[k].result[1].token) =
               Some([blobRef |-> uploads[k].result[1].blobRef,
                     expiresAtEpochMs |-> uploads[k].result[1].expiresAtEpochMs])

UrlSafe == "ABCDEFGHIJKLMNOPQRSTUVWXYZabcdefghijklmnopqrstuvwxyz0123456789_-"

\* the tokens uploads obtained from generateToken
Minted == { uploads[i].token : i \in { n \in DOMAIN uploads : uploads[n].token # "" } }

\* C18: whatever the random source returns, generateToken returns a token of
\* one fixed length (8) whose characters all belong to [A-Za-z0-9_-], so
\* URL-encoding the token leaves it unchanged
C18_TokenFormat ==
    \A t \in Minted :
        /\ Len(t) = 8
        /\ \A k \in 1..Len(t) :
               \E c \in 1..Len(UrlSafe) : SubSeq(t, k, k) = SubSeq(UrlSafe, c, c)
        /\ encodeURIComponent(t) = t

\* an upload returned a token minted from seven bytes 255 and a last byte
\* that is 61 modulo 62
C18_Witness ==
    \E i \in Returned : uploads[i].result[1].token = "HHHHHHH9"

\* C19 as stated: every token returned by generateToken is exactly 43
\* characters long
C19_TokenLength43 == \A t \in Minted : Len(t) = 43

\* the accepted set the specification declares as the default
DeclaredDefaultTypes == {"image/jpeg", "image/png", "image/webp", "image/gif"}

\* C20 as stated: with no accepted-types configuration, an upload whose data
\* is within the size limits passes validation exactly when its content type
\* is image/jpeg, image/png, image/webp or image/gif
C20_DefaultAcceptedTypes ==
    \A i \in DOMAIN uploads :
        (uploads[i].data.length > 0 /\ uploads[i].data.length <= 5242880)
            => (PassedValidation(uploads[i])
                    <=> uploads[i].contentType \in DeclaredDefaultTypes)

TooLarge(u) == u.error = "UploadValidationError: Image exceeds maximum allowed size"

\* C21: an upload whose input is otherwise valid (non-empty data, accepted
\* content type) is rejected as too large iff its byte length is greater
\* than 5 242 880; exactly 5 242 880 bytes pass validation, 5 242 881 do not
C21_SizeCapExact ==
    \A i \in DOMAIN uploads :
        LET u == uploads[i]
        IN  (u.data.length > 0 /\ u.contentType \in AcceptedByDefault) =>
                /\ TooLarge(u) <=> u.data.length > 5242880
                /\ u.data.length <= 5242880 => PassedValidation(u)
                /\ u.data.length = 5242880 /\ u.fault = "" => Called(u, "metadataStore.put")
                /\ u.data.length = 5242881 => (TooLarge(u) /\ u.calls = <<>>)

\* a payload of 5 242 880 bytes was uploaded and returned a token, and one of
\* 5 242 881 bytes was rejected as too large
C21_Witness ==
    /\ \E i \in Returned : uploads[i].data.length = 5242880
    /\ \E i \in DOMAIN uploads : uploads[i].data.length = 5242881 /\ TooLarge(uploads[i])

\* what validation rejects an upload for, in the order the checks are made
RejectionCause(u) ==
    IF u.data.length = 0 THEN "empty"
    ELSE IF u.data.length > 5242880 THEN "too large"
    ELSE IF u.contentType \notin AcceptedByDefault THEN "unsupported type"
    ELSE "none"

\* C22 as stated: the error delivered for a rejected upload carries a
\* machine-readable kind that differs between an empty payload, a payload
\* over the cap and an absent or unaccepted content type
C22_TypedValidationErrors ==
    \A i, k \in DOMAIN uploads :
        (RejectionCause(uploads[i]) # "none"
         /\ RejectionCause(uploads[k]) # "none"
         /\ RejectionCause(uploads[i]) # RejectionCause(uploads[k]))
            => errorName(uploads[i].error) # errorName(uploads[k].error)

\* on every replica the record of token t, if there is one, is past its
\* grace window
DeadEverywhere(t) ==
    t \in DOMAIN token_metadata =>
        \A r \in Replicas :
            now(r) > PostgresGet(token_metadata, t)[1].expiresAtEpochMs + 5000

\* no access whose clock reading is at or past the horizon gets through
DeniedPastHorizon ==
    \A j \in DOMAIN accesses :
        (accesses[j].nowMs # null /\ accesses[j].nowMs[1] >= Horizon)
            => DeniedAs(accesses[j], "expired")

MintClockAt(a, i) ==
    a.nowMs[1] - clockOffset[a.replica] + clockOffset[uploads[i].replica]

ClocksWithinTolerance(a, i) ==
    /\ clockOffset[a.replica] - clockOffset[uploads[i].replica] <= 5000
    /\ clockOffset[uploads[i].replica] - clockOffset[a.replica] <= 5000

\* C30: when the serving replica's clock is within 5000 ms of the minting
\* replica's, an access made at or before the expiry instant, as the minting
\* replica's clock measures it, is not denied as expired
C30_GraceAbsorbsSkew ==
    \A j \in DOMAIN accesses :
        accesses[j].metadata # null =>
            \A i \in WroteRecordOf(accesses[j]) :
                (ClocksWithinTolerance(accesses[j], i)
                 /\ MintClockAt(accesses[j], i) <= uploads[i].putArgs[1].expiresAtEpochMs)
                    => /\ ~DeniedAs(accesses[j], "expired")
                       /\ Called(accesses[j], "blobStorage.get")

\* a token minted on r1 was served by r2, whose clock is 5000 ms ahead, at
\* the very instant r1's clock read the expiry, and the access was allowed
C30_Witness ==
    \E j \in DOMAIN accesses :
        /\ Allowed(accesses[j])
        /\ accesses[j].replica = "r2"
        /\ \E i \in WroteRecordOf(accesses[j]) :
               /\ uploads[i].replica = "r1"
               /\ MintClockAt(accesses[j], i) = uploads[i].putArgs[1].expiresAtEpochMs
               /\ accesses[j].nowMs[1] = uploads[i].putArgs[1].expiresAtEpochMs + 5000

Saved == { i \in DOMAIN uploads : uploads[i].blobRef # "" }

\* get of every reference save has returned gives the bytes that were saved,
\* references are never handed out twice, and a reference save has not
\* returned is not found
BlobsKept ==
    /\ \A i \in Saved : LocalGet(files, uploads[i].blobRef) = Some(uploads[i].data)
    /\ \A i, k \in Saved : i # k => uploads[i].blobRef # uploads[k].blobRef
    /\ LocalGet(files, generateBlobRef(files)) = null
    /\ LocalGet(files, "fs:00000000-0000-0000-0000-000000000000") = null

\* no step changes or removes a file that exists
FilesWrittenOnce ==
    \A f \in DOMAIN files : f \in DOMAIN files' /\ files'[f] = files[f]

Faulted(a) ==
    /\ a.error # ""
    /\ a.result = null
    /\ a.response = InternalServerError

\* C26: a collaborator fault during an access is surfaced as a fault and never
\* as a decision: when metadataStore.get rejects, accessImage throws without
\* calling blobStorage.get; when the record is live and blobStorage.get
\* rejects, accessImage throws and does not return denied 'missing'
C26_FaultNotDecision ==
    \A j \in DOMAIN accesses :
        LET a == accesses[j]
        IN  /\ a.fault = "metadataStore.get" =>
                   /\ Faulted(a)
                   /\ a.calls = <<"metadataStore.get">>
            /\ a.fault = "blobStorage.get" =>
                   /\ Faulted(a)
                   /\ a.metadata # null
                   /\ ~DeniedAs(a, "missing")
                   /\ a.calls = <<"metadataStore.get", "blobStorage.get">>
            /\ (a.error # "") = (a.fault # "")

\* both faults have happened: a lookup that rejected, and a blob read that
\* rejected for a record that was found and not expired
C26_Witness ==
    /\ \E j \in DOMAIN accesses : accesses[j].fault = "metadataStore.get"
    /\ \E j \in DOMAIN accesses :
           /\ accesses[j].fault = "blobStorage.get"
           /\ accesses[j].metadata # null
           /\ accesses[j].response # null
           /\ accesses[j].response[1].status = 500

\* the uploads whose metadataStore.put rejected
PutFailed == { i \in DOMAIN uploads : uploads[i].fault = "metadataStore.put" }

\* such an upload threw: its caller got no token, the index holds no row that
\* binds its token to its blob, and the blob it saved is still stored
AbortedAfterSave ==
    \A i \in PutFailed :
        LET u == uploads[i]
        IN  /\ u.error # "" /\ u.result = null
            /\ u.response = Some([status |-> 500, headers |-> BaseHeaders,
                                  body |-> [error |-> "Internal server error"]])
            /\ u.token # "" /\ u.blobRef # ""
            /\ \A t \in DOMAIN token_metadata : token_metadata[t].blob_ref # u.blobRef
            /\ LocalGet(files, u.blobRef) = Some(u.data)

\* the step in which put rejects writes neither the index nor the blob store
PutFailureWritesNothing ==
    PutFailed' # PutFailed => token_metadata' = token_metadata /\ files' = files

\* C27: when metadataStore.put rejects, uploadImage throws and returns no
\* token, no record of the minted token for this upload becomes visible, and
\* the blob saved before stays in the blob store
C27_PutFailureOrphansBlob ==
    /\ []AbortedAfterSave
    /\ [][PutFailureWritesNothing]_vars

\* a put has rejected after the blob of the upload was saved
C27_Witness ==
    \E i \in PutFailed :
        /\ Called(uploads[i], "metadataStore.put")
        /\ uploads[i].response # null
        /\ uploads[i].token \notin DOMAIN token_metadata
        /\ getFilePath(uploads[i].blobRef) \in DOMAIN files

\* every row of the index names a blob that a completed save wrote, and that
\* blob can be read
RecordsHaveBlobs ==
    \A t \in DOMAIN token_metadata :
        /\ LocalGet(files, token_metadata[t].blob_ref) # null
        /\ \E i \in Saved :
               /\ uploads[i].blobRef = token_metadata[t].blob_ref
               /\ Called(uploads[i], "metadataStore.put")
               /\ LocalGet(files, uploads[i].blobRef) = Some(uploads[i].data)

\* an access that found a record and awaits the blob can read it; without an
\* injected I/O fault it never ends with a blob that was not found
AccessFindsBlob ==
    \A j \in DOMAIN accesses :
        LET a == accesses[j]
        IN  /\ a.metadata # null => LocalGet(files, a.metadata[1].blobRef) # null
            /\ a.fault = "" => a.error = ""

\* C28: in every reachable state every record visible in the index references
\* a blob whose save has completed, so no access finds a record whose blob is
\* not yet retrievable
C28_BlobBeforeRecord == RecordsHaveBlobs /\ AccessFindsBlob

\* an access on the replica that did not take the upload was served the blob
\* while another upload had saved its blob and not yet written its record
C28_Witness ==
    /\ \E j \in DOMAIN accesses, i \in DOMAIN uploads :
           /\ Allowed(accesses[j])
           /\ accesses[j].token = uploads[i].token
           /\ accesses[j].replica # uploads[i].replica
    /\ \E i \in DOMAIN uploads : uploads[i].pc = "put"

\* the put of every upload carries the token of that upload, the reference its
\* own save returned and the expiry of its own clock reading, and a returned
\* upload hands its caller that token
OwnBinding ==
    \A i \in DOMAIN uploads :
        LET u == uploads[i]
        IN  /\ u.putArgs # null =>
                   u.putArgs = Some([token |-> u.token, blobRef |-> u.blobRef,
                                     expiresAtEpochMs |->
                                         u.nowMs[1] + EXPIRY_DURATION_MS])
            /\ u.result # null => u.result[1].token = u.putArgs[1].token

\* a step leaves every row that is in the index as it is: a put adds the row of
\* its own upload and touches no row written by another upload
NoOverwrite ==
    \A t \in DOMAIN token_metadata :
        t \in DOMAIN token_metadata' /\ token_metadata'[t] = token_metadata[t]

\* C29 as stated: uploads are independent; each put binds the upload's own
\* token, blob reference and expiry, and no upload overwrites the blob
\* reference or the expiry of another upload
C29_UploadsIndependent ==
    /\ []OwnBinding
    /\ [][NoOverwrite]_vars

\* the calls of put and get that returned without an error
Succeeded == { k \in DOMAIN store.calls : store.calls[k].outcome \in {"ok", "null", "metadata"} }

\* C31: no put or get returns success before the schema bootstrap has
\* completed, also when the call was made right after construction, while
\* the bootstrap was still running; the server starts only after it
C31_NoSuccessBeforeSchema ==
    /\ \A k \in Succeeded : store.schemaInitialized = "fulfilled" /\ store.table
    /\ store.server = "listening" => store.schemaInitialized = "fulfilled"
    /\ store.rows # <<>> => store.schemaInitialized = "fulfilled"

\* a put and a get made while the bootstrap was pending have both succeeded
\* after it completed, the get finding the row of the put
C31_Witness ==
    /\ \E k \in Succeeded : store.calls[k].op = "put" /\ store.calls[k].issued = "pending"
    /\ \E k \in Succeeded : store.calls[k].op = "get" /\ store.calls[k].issued = "pending"
                            /\ store.calls[k].outcome = "metadata"

\* save number k returned a reference
DualSaved(k) == dual.saves[k].result # ""

\* C32: DualBlobStorage.save succeeds exactly when the primary's save does and
\* returns the primary's reference; the secondary's save is started only after
\* the primary succeeded, is not awaited, and its failure leaves save a success
C32_DualWrite ==
    \A k \in DOMAIN dual.saves :
        LET s == dual.saves[k]
        IN  /\ DualSaved(k) = (s.error = "")
            /\ DualSaved(k) =>
                   /\ getFilePath(s.result) \in DOMAIN dual.primary
                   /\ dual.primary[getFilePath(s.result)] = s.data
                   /\ s.result # s.secondaryRef
            /\ s.secondary # "none" => DualSaved(k)
            /\ ~DualSaved(k) => s.secondary = "none"
            /\ s.secondary = "failed" => DualSaved(k) /\ s.error = ""

\* one save has returned while its secondary write was still running, and
\* another has returned and stayed a success although its secondary write failed
C32_Witness ==
    \E k, n \in DOMAIN dual.saves :
        /\ DualSaved(k) /\ dual.saves[k].secondary = "started"
        /\ DualSaved(n) /\ dual.saves[n].secondary = "failed"

\* C33 as stated: get returns the primary's bytes whenever the primary holds
\* the reference; for a reference save returned and whose secondary write has
\* completed, get returns the saved bytes also when the primary cannot serve
\* it; get fails only when neither store can serve the blob
C33_DualReadFallback ==
    \A g \in DOMAIN dual.gets :
        LET get == dual.gets[g]
        IN  /\ get.primary # null => get.result = get.primary
            /\ get.mirrored # {} => get.result # null /\ get.result[1] \in get.mirrored
            /\ get.result = null => get.primary = null /\ get.mirrored = {}

\* the backend names of a selection: its entries trimmed, in lower case,
\* the empty ones left out
BackendNames(entries) ==
    SelectSeq([i \in DOMAIN entries |-> toLowerCase(trim(entries[i]))],
              LAMBDA n : n # "")

\* C34 as stated: 'local' yields the local adapter, 's3' an S3 adapter,
\* 'local,s3' and 's3,local' a dual adapter writing to both; an unknown name,
\* a pair that is not local + s3, or more than two names is rejected with a
\* configuration error
C34_BlobStoreSelection ==
    (startup.fn = "createBlobStorage" /\ startup.output # null) =>
        LET names == BackendNames(startup.input[1].entries)
            named == { names[i] : i \in DOMAIN names }
            made == startup.output[1]
        IN  /\ names = <<"local">> =>
                   made.adapter = "LocalFilesystemBlobStorage" /\ made.error = ""
            /\ names = <<"s3">> => made.adapter = "S3BlobStorage" /\ made.error = ""
            /\ (Len(names) = 2 /\ named = {"local", "s3"}) =>
                   made.adapter = "DualBlobStorage" /\ made.error = ""
            /\ (\/ named \ {"local", "s3"} # {}
                \/ Len(names) = 2 /\ named # {"local", "s3"}
                \/ Len(names) > 2) =>
                   made.adapter = "" /\ made.error # ""

\* C35 as stated: at every position of the token the mapping from the 256
\* byte values to characters gives every character of the alphabet the same
\* number of byte values
C35_UniformCharacters ==
    (startup.fn = "generateToken" /\ startup.input[1].byte \notin ByteValues) =>
        \A c, d \in 1..Len(ALPHANUMERIC) : startup.output[1][c] = startup.output[1][d]

\* the expansion of one entry of the list of accepted types
Expansion(x) ==
    IF x \in {"jpeg", "jpg"} THEN "image/jpeg"
    ELSE IF startsWith(x, "image/") THEN x
    ELSE "image/" \o x

\* the accepted set of a list of entries: the image of its non-empty,
\* trimmed, lower-cased entries under the expansion
AcceptedSet(entries) ==
    { Expansion(toLowerCase(trim(entries[i]))) :
          i \in { n \in DOMAIN entries : trim(entries[n]) # "" } }

\* the validation of an upload under a configured list has run
Validated == startup.fn = "validateUploadInput" /\ startup.output # null

\* C36 as stated: for every configuration string the upload is accepted iff
\* its declared contentType is in the accepted set of the string's entries
C36_AcceptedTypeParsing ==
    Validated =>
        ((startup.output[1] = None) <=>
             startup.input[1].contentType \in AcceptedSet(startup.input[1].entries))

\* C36, amended: the same for every configuration string that is not empty;
\* under the empty string the upload is accepted iff its contentType is in
\* the accepted set of the default list jpeg, jpg, png, webp
C36_AcceptedTypeParsingNonEmpty ==
    Validated =>
        LET entries == IF startup.input[1].supportedFileTypes = ""
                       THEN <<"jpeg", "jpg", "png", "webp">>
                       ELSE startup.input[1].entries
        IN  (startup.output[1] = None) <=>
                startup.input[1].contentType \in AcceptedSet(entries)

\* under the list 'JPG, png ' an upload declared image/jpeg has been accepted
C36_Witness ==
    /\ Validated
    /\ startup.input[1].supportedFileTypes = "JPG, png "
    /\ startup.input[1].contentType = "image/jpeg"
    /\ startup.output[1] = None

\* the environment variable if set, else the config-file value if present,
\* else the default
Resolved(fromEnv, fromFile, default) ==
    IF fromEnv # "" THEN fromEnv ELSE IF fromFile # "" THEN fromFile ELSE default

\* the same for a port: a number in the end
ResolvedPort(fromEnv, fromFile, default) ==
    Number(IF fromEnv # "" THEN parseInt(fromEnv)
           ELSE IF fromFile # null THEN fromFile[1] ELSE default)

\* C37 as stated: loadConfig resolves every setting as the environment
\* variable if set, else the config-file value if present, else the default;
\* without PORT / PG_PORT and without a port in the file, server.port is 3000
\* and database.port is 5432
C37_ConfigPrecedence ==
    (startup.fn = "loadConfig" /\ startup.output # null) =>
        LET env == startup.input[1].env
            file == startup.input[1].fileConfig
            config == startup.output[1]
        IN  /\ config.server.port = ResolvedPort(env.PORT, file.server.port, 3000)
            /\ config.database.port = ResolvedPort(env.PG_PORT, file.database.port, 5432)
            /\ config.database.host = Resolved(env.PG_HOST, file.database.host, "localhost")
            /\ config.blobStorage.storage =
                   Resolved(env.BLOB_STORAGE, file.blobStorage.storage, "local")
            /\ config.supportedFileTypes =
                   Resolved(env.SUPPORTED_FILE_TYPES, file.supportedFileTypes,
                            "jpeg,jpg,png,webp")

\* the schema initialization of the instance has failed
SchemaFailed == store.schemaInitialized = "rejected"

\* after the failure every put and get that has settled threw, nothing was
\* written, and createHttpServer did not start the server
AllCallsFail ==
    SchemaFailed =>
        /\ \A k \in DOMAIN store.calls :
               store.calls[k].pc = "done" => store.calls[k].outcome = "error"
        /\ Succeeded = {}
        /\ store.rows = <<>>
        /\ store.server # "listening"

\* the failed initialization is not run again
NeverRetried ==
    SchemaFailed =>
        /\ store'.schemaInitialized = "rejected"
        /\ store'.table = store.table

\* C38: when the schema initialization of a PostgresMetadataStore fails,
\* every later put and get on the instance fails with an error, the
\* initialization is never retried, and none of them returns success or null
C38_FailedSchemaFailsAll ==
    /\ []AllCallsFail
    /\ [][NeverRetried]_vars

\* the initialization failed although the relation exists; the start-up check
\* and a put and a get made after the failure have all thrown
C38_Witness ==
    /\ SchemaFailed /\ store.table
    /\ store.server = "failed"
    /\ \E k, n \in DOMAIN store.calls :
           /\ store.calls[k].op = "put" /\ store.calls[k].issued = "rejected"
           /\ store.calls[k].outcome = "error"
           /\ store.calls[n].op = "get" /\ store.calls[n].issued = "rejected"
           /\ store.calls[n].outcome = "error"

\* the page shows the response of the upload of the file now selected
ShowsCurrentUpload ==
    ui.state = "success" =>
        /\ ui.file # null
        /\ ui.response # null
        /\ ui.response[1].url = Origin \o uploadResponseOf(ui.file[1]).url

\* at most one upload request is in flight
OneRequestInFlight == Len(ui.inflight) <= 1

\* C39 as stated: whenever the state is 'success' the displayed URL is the
\* response of the upload of the currently selected file; a file change during
\* an upload neither lets the stale response be displayed later nor allows a
\* second upload request to be in flight at the same time
C39_UiShowsCurrentUpload == ShowsCurrentUpload /\ OneRequestInFlight

====
